---------------------------- MODULE Spec2Model ----------------------------
(***************************************************************************)
(* Model of the two boundary layers of the repository:                     *)
(*                                                                         *)
(*   napi/minify/src/options.rs  - resolution of the caller's MinifyOptions*)
(*                                 into the engine's option records        *)
(*   wasm/parser/src/lib.rs      - parse_sync: source type resolution,     *)
(*                                 the engine call and the packaging of    *)
(*                                 tree, comments and diagnostics          *)
(*                                                                         *)
(* Rust values are encoded as follows.                                     *)
(*   Option<T>      None = <<>>,  Some(x) = <<x>>                          *)
(*   Either<A, B>   [either |-> "A", a |-> x] / [either |-> "B", b |-> y]  *)
(*   Result<T, E>   [ok |-> TRUE, value |-> x] / [ok |-> FALSE, error |-> e]*)
(*   String         a TLA+ string when only compared, a sequence of        *)
(*                  one-character strings when sliced (source_text)        *)
(***************************************************************************)
EXTENDS Integers, Sequences, FiniteSets, TLC

VARIABLES
    o,                 \* minify: the caller's MinifyOptions
    mpc,               \* minify: position in the options pipeline
    minifier_options,  \* minify: Result<MinifierOptions, String>, <<>> before
    codegen_options,   \* minify: Option<oxc_codegen::CodegenOptions>, "unset" before
    source_text,       \* parse_sync: the source_text argument
    options,           \* parse_sync: ParserOptions after unwrap_or_default
    pc,                \* parse_sync: position in the function body
    source_type,       \* parse_sync: the SourceType handed to the parser
    ret,               \* parse_sync: the engine's ParserReturn
    program,           \* parse_sync: the serialized tree
    comments,          \* parse_sync: Vec<JsValue> of comments
    errors,            \* parse_sync: Vec<JsValue> of diagnostics
    fault,             \* parse_sync: which serialization the serializer refused
    result             \* parse_sync: how the call ended and what it returned

minify_vars == <<o, mpc, minifier_options, codegen_options>>
parse_vars == <<source_text, options, pc, source_type, ret, program, comments, errors, fault, result>>
vars == <<o, mpc, minifier_options, codegen_options,
          source_text, options, pc, source_type, ret, program, comments, errors, fault, result>>

----------------------------------------------------------------------------
(* Rust's Option, Either and Result.                                       *)

None == <<>>
Some(x) == <<x>>
UnwrapOr(x, d) == IF x = <<>> THEN d ELSE x[1]

EitherA(x) == [either |-> "A", a |-> x]
EitherB(y) == [either |-> "B", b |-> y]

Ok(x) == [ok |-> TRUE, value |-> x]
Err(e) == [ok |-> FALSE, error |-> e]

OptBool == {None, Some(TRUE), Some(FALSE)}

----------------------------------------------------------------------------
(* napi/minify/src/options.rs                                              *)

\* The version tags of the `target` field's type (options.rs:22).
RecognisedTargets ==
    {"esnext", "es2015", "es2016", "es2017", "es2018", "es2019",
     "es2020", "es2021", "es2022", "es2023", "es2024"}

\* The ESTarget variant a recognised tag names.
ESTargetOf ==
    [esnext |-> "ESNext", es2015 |-> "ES2015", es2016 |-> "ES2016",
     es2017 |-> "ES2017", es2018 |-> "ES2018", es2019 |-> "ES2019",
     es2020 |-> "ES2020", es2021 |-> "ES2021", es2022 |-> "ES2022",
     es2023 |-> "ES2023", es2024 |-> "ES2024"]

\* ESTarget::from_str: the variant of a recognised tag, an error otherwise.
ESTargetFromStr(s) ==
    IF s \in RecognisedTargets THEN Ok(ESTargetOf[s])
    ELSE Err(<<"Invalid target", s>>)

\* oxc_minifier::CompressOptions::default()
OxcCompressOptionsDefault ==
    [target |-> "ESNext", drop_console |-> FALSE, drop_debugger |-> TRUE]

\* oxc_minifier::MangleOptions::default()
OxcMangleOptionsDefault == [top_level |-> FALSE, debug |-> FALSE]

\* oxc_codegen::CodegenOptions::default()
OxcCodegenOptionsDefault == [minify |-> TRUE]

\* impl Default for CodegenOptions (the napi record)
NapiCodegenOptionsDefault == [remove_whitespace |-> Some(TRUE)]

\* Mutant: a present drop_console is ignored in favour of the default.
CompressOptionsTryFrom_IgnoresDropConsole(c) ==
    LET default == OxcCompressOptionsDefault
        parsed == IF c.target = None THEN Ok(None)
                  ELSE LET r == ESTargetFromStr(c.target[1])
                       IN IF r.ok THEN Ok(Some(r.value)) ELSE r
    IN IF ~parsed.ok THEN Err(parsed.error)
       ELSE Ok([target |-> UnwrapOr(parsed.value, default.target),
                drop_console |-> default.drop_console,
                drop_debugger |-> UnwrapOr(c.drop_debugger, default.drop_debugger)])

\* Mutant: an unparsable target falls back to the default target.
CompressOptionsTryFrom_BestEffort(c) ==
    LET default == OxcCompressOptionsDefault
        parsed == IF c.target = None THEN None
                  ELSE LET r == ESTargetFromStr(c.target[1])
                       IN IF r.ok THEN Some(r.value) ELSE None
    IN Ok([target |-> UnwrapOr(parsed, default.target),
           drop_console |-> UnwrapOr(c.drop_console, default.drop_console),
           drop_debugger |-> UnwrapOr(c.drop_debugger, default.drop_debugger)])

\* impl TryFrom<&CompressOptions> for oxc_minifier::CompressOptions.
\* `parsed` is o.target.as_ref().map(from_str).transpose(); the `?` returns
\* its error before any field of the record is built.
CompressOptionsTryFrom(c) ==
    LET default == OxcCompressOptionsDefault
        parsed == IF c.target = None THEN Ok(None)
                  ELSE LET r == ESTargetFromStr(c.target[1])
                       IN IF r.ok THEN Ok(Some(r.value)) ELSE r
    IN IF ~parsed.ok THEN Err(parsed.error)
       ELSE Ok([target |-> UnwrapOr(parsed.value, default.target),
                drop_console |-> UnwrapOr(c.drop_console, default.drop_console),
                drop_debugger |-> UnwrapOr(c.drop_debugger, default.drop_debugger)])

\* impl From<&MangleOptions> for oxc_minifier::MangleOptions
MangleOptionsFrom(m) ==
    LET default == OxcMangleOptionsDefault
    IN [top_level |-> UnwrapOr(m.toplevel, default.top_level),
        debug |-> UnwrapOr(m.debug, default.debug)]

\* impl From<&CodegenOptions> for oxc_codegen::CodegenOptions
CodegenOptionsFrom(g) ==
    LET default == OxcCodegenOptionsDefault
    IN [default EXCEPT !.minify = UnwrapOr(g.remove_whitespace, default.minify)]

\* Mutant: compress is opt-in, an absent option disables the stage.
ResolveCompress_OptIn(c) ==
    IF c = None THEN Ok(None)
    ELSE IF c = Some(EitherA(FALSE)) THEN Ok(None)
    ELSE IF c = Some(EitherA(TRUE)) THEN Ok(Some(OxcCompressOptionsDefault))
    ELSE LET r == CompressOptionsTryFrom(c[1].b)
         IN IF r.ok THEN Ok(Some(r.value)) ELSE Err(r.error)

\* The `compress` match of MinifierOptions::try_from, with the error of the
\* detailed arm still to be propagated by `?`.
ResolveCompress(c) ==
    IF c = Some(EitherA(FALSE)) THEN Ok(None)
    ELSE IF c = None \/ c = Some(EitherA(TRUE)) THEN Ok(Some(OxcCompressOptionsDefault))
    ELSE LET r == CompressOptionsTryFrom(c[1].b)
         IN IF r.ok THEN Ok(Some(r.value)) ELSE Err(r.error)

\* Mutant: the boolean of the mangle flag is not looked at.
ResolveMangle_FlagEnables(m) ==
    IF m = None \/ m = Some(EitherA(TRUE)) \/ m = Some(EitherA(FALSE))
    THEN Some(OxcMangleOptionsDefault)
    ELSE Some(MangleOptionsFrom(m[1].b))

\* The `mangle` match of MinifierOptions::try_from.
ResolveMangle(m) ==
    IF m = Some(EitherA(FALSE)) THEN None
    ELSE IF m = None \/ m = Some(EitherA(TRUE)) THEN Some(OxcMangleOptionsDefault)
    ELSE Some(MangleOptionsFrom(m[1].b))

\* impl TryFrom<&MinifyOptions> for oxc_minifier::MinifierOptions
MinifierOptionsTryFrom(mo) ==
    LET c == ResolveCompress(mo.compress)
    IN IF ~c.ok THEN Err(c.error)
       ELSE Ok([compress |-> c.value, mangle |-> ResolveMangle(mo.mangle)])

\* The tri-state rule applied to the codegen option.
ResolveCodegen(g) ==
    IF g = Some(EitherA(FALSE)) THEN None
    ELSE IF g = None \/ g = Some(EitherA(TRUE))
    THEN Some(CodegenOptionsFrom(NapiCodegenOptionsDefault))
    ELSE Some(CodegenOptionsFrom(g[1].b))

\* Values of the `target` field tried: three recognised tags, two that are not.
TargetStrings == {"esnext", "es2015", "es2024", "es2049", "latest"}

CompressConfigs ==
    [target : {None} \cup {Some(s) : s \in TargetStrings},
     drop_console : OptBool, drop_debugger : OptBool]

MangleConfigs == [toplevel : OptBool, debug : OptBool]

CodegenConfigs == [remove_whitespace : OptBool]

TriState(configs) ==
    {None, Some(EitherA(TRUE)), Some(EitherA(FALSE))}
        \cup {Some(EitherB(c)) : c \in configs}

MinifyOptionsSet ==
    [compress : TriState(CompressConfigs), mangle : TriState(MangleConfigs),
     codegen : TriState(CodegenConfigs), sourcemap : OptBool]

ParseIdle ==
    /\ source_text = <<>>
    /\ options = [source_type |-> None, source_filename |-> None]
    /\ pc = "idle"
    /\ source_type = None
    /\ ret = None
    /\ program = None
    /\ comments = <<>>
    /\ errors = <<>>
    /\ fault = "none"
    /\ result = [status |-> "idle"]

MinifyInit ==
    /\ o \in MinifyOptionsSet
    /\ mpc = "start"
    /\ minifier_options = None
    /\ codegen_options = "unset"
    /\ ParseIdle

\* MinifierOptions::try_from(&options)
TryFromMinifyOptions ==
    /\ mpc = "start"
    /\ minifier_options' = Some(MinifierOptionsTryFrom(o))
    /\ mpc' = "assembled"
    /\ UNCHANGED <<o, codegen_options>>
    /\ UNCHANGED parse_vars

\* The codegen options are resolved once the minifier options are assembled.
ResolveCodegenOptions ==
    /\ mpc = "assembled"
    /\ minifier_options[1].ok
    /\ codegen_options' = ResolveCodegen(o.codegen)
    /\ mpc' = "resolved"
    /\ UNCHANGED <<o, minifier_options>>
    /\ UNCHANGED parse_vars

MinifyNext == TryFromMinifyOptions \/ ResolveCodegenOptions

Spec == MinifyInit /\ [][MinifyNext]_vars

----------------------------------------------------------------------------
(* wasm/parser/src/lib.rs                                                  *)

\* Largest size of one parse: bytes of source text plus engine errors plus
\* labels on them.
MaxSize == 5

NL == "\n"

\* The bytes a source text is made of.
Chars == {"/", "*", "a", NL}

\* The texts of the engine's error messages.
Messages == {"Unexpected token", "Expected a semicolon"}

Min(a, b) == IF a < b THEN a ELSE b
Range(t) == {t[i] : i \in 1..Len(t)}

\* All sequences over S of length at most n.
RECURSIVE SeqsUpTo(_, _)
SeqsUpTo(S, n) ==
    IF n = 0 THEN {<<>>}
    ELSE LET shorter == SeqsUpTo(S, n - 1)
         IN shorter \cup {Append(t, x) : t \in {u \in shorter : Len(u) = n - 1}, x \in S}

\* All sequences of exactly k distinct elements of S.
RECURSIVE DistinctSeqs(_, _)
DistinctSeqs(S, k) ==
    IF k = 0 THEN {<<>>}
    ELSE UNION {{Append(t, x) : x \in S \ Range(t)} : t \in DistinctSeqs(S, k - 1)}

\* First index at or after i that holds a line break, Len(s) + 1 if none.
RECURSIVE LineEnd(_, _)
LineEnd(s, i) ==
    IF i > Len(s) \/ s[i] = NL THEN Min(i, Len(s) + 1) ELSE LineEnd(s, i + 1)

\* First index j at or after i with "*/" at j and j + 1, 0 if none.
RECURSIVE BlockEnd(_, _)
BlockEnd(s, i) ==
    IF i + 1 > Len(s) THEN 0
    ELSE IF s[i] = "*" /\ s[i + 1] = "/" THEN i
    ELSE BlockEnd(s, i + 1)

\* The comments the engine's lexer collects from index i on, with byte
\* offsets counted from 0.  `clean` is FALSE when the text holds a "/" or
\* "*" that belongs to no comment, or a block comment that is not closed.
RECURSIVE ScanComments(_, _)
ScanComments(s, i) ==
    IF i > Len(s) THEN [clean |-> TRUE, comments |-> <<>>]
    ELSE IF s[i] \in {"a", NL} THEN ScanComments(s, i + 1)
    ELSE IF s[i] = "/" /\ i < Len(s) /\ s[i + 1] = "/" THEN
        LET e == LineEnd(s, i + 2)
            rest == ScanComments(s, e)
        IN [clean |-> rest.clean,
            comments |-> <<[kind |-> "CommentKind::Line",
                            span |-> [start |-> i - 1, end |-> e - 1]]>>
                         \o rest.comments]
    ELSE IF s[i] = "/" /\ i < Len(s) /\ s[i + 1] = "*" /\ BlockEnd(s, i + 2) # 0 THEN
        LET j == BlockEnd(s, i + 2)
            rest == ScanComments(s, j + 2)
        IN [clean |-> rest.clean,
            comments |-> <<[kind |-> "CommentKind::Block",
                            span |-> [start |-> i - 1, end |-> j + 1]]>>
                         \o rest.comments]
    ELSE [clean |-> FALSE, comments |-> <<>>]

\* Source texts made of identifier bytes, line breaks and closed comments.
SourceTexts == {s \in SeqsUpTo(Chars, MaxSize) : ScanComments(s, 1).clean}

\* The spans a label can mark in a text of n bytes.
LabelSpans(n) == {sp \in [offset : 0..n, len : 0..n] : sp.offset + sp.len <= n}

\* The `labels` field of an engine error that carries k labels: absent or
\* empty for k = 0, else k labels on spans of their own.
LabelChoices(n, k) ==
    {Some(ls) : ls \in DistinctSeqs(LabelSpans(n), k)}
        \cup (IF k = 0 THEN {None} ELSE {})

\* The error lists the engine can report on a text of n bytes, within size b
\* (one for each error plus one for each label).
RECURSIVE ErrorLists(_, _)
ErrorLists(n, b) ==
    IF b <= 0 THEN {<<>>}
    ELSE {<<>>} \cup
         UNION {{<<[message |-> m, labels |-> ls]>> \o rest :
                    m \in Messages, ls \in LabelChoices(n, k),
                    rest \in ErrorLists(n, b - 1 - k)} : k \in 0..(b - 1)}

\* Parser::new(&allocator, &source_text, source_type).parse(): the program
\* with the comments of the text, and some list of errors.
ParserReturns(text) ==
    {[program |-> [body |-> "statements", comments |-> ScanComments(text, 1).comments],
      errors |-> es] : es \in ErrorLists(Len(text), MaxSize - Len(text))}

\* SourceType::default()
SourceTypeDefault ==
    [language |-> "JavaScript", module_kind |-> "Script", variant |-> "Standard"]

\* SourceType::from_path: the source type a file extension stands for.
SourceTypeFromPath(name) ==
    IF name = "a.mjs"
    THEN Ok([language |-> "JavaScript", module_kind |-> "Module", variant |-> "Standard"])
    ELSE IF name = "a.tsx"
    THEN Ok([language |-> "TypeScript", module_kind |-> "Module", variant |-> "Jsx"])
    ELSE Err("UnknownExtension")

\* SourceType::with_script(true)
WithScript(st) == [st EXCEPT !.module_kind = "Script"]

\* SourceType::with_module(true)
WithModule(st) == [st EXCEPT !.module_kind = "Module"]

\* Mutant: a present sourceType replaces the inferred source type whole.
ResolveSourceType_Replaces(opts) ==
    LET inferred == IF opts.source_filename = None THEN Ok(SourceTypeDefault)
                    ELSE SourceTypeFromPath(opts.source_filename[1])
    IN IF ~inferred.ok THEN inferred
       ELSE IF opts.source_type = Some("script") THEN Ok(WithScript(SourceTypeDefault))
       ELSE IF opts.source_type = Some("module") THEN Ok(WithModule(SourceTypeDefault))
       ELSE inferred

\* lib.rs:82-92.  The result is an Err where from_path(name).unwrap()
\* panics, else the source type handed to the parser; a sourceType other
\* than "script" and "module" takes the `_` arm.
ResolveSourceType(opts) ==
    LET inferred == IF opts.source_filename = None THEN Ok(SourceTypeDefault)
                    ELSE SourceTypeFromPath(opts.source_filename[1])
    IN IF ~inferred.ok THEN inferred
       ELSE IF opts.source_type = Some("script") THEN Ok(WithScript(inferred.value))
       ELSE IF opts.source_type = Some("module") THEN Ok(WithModule(inferred.value))
       ELSE inferred

\* Comment::content_span: the span between the delimiters.
ContentSpan(comment) ==
    IF comment.kind = "CommentKind::Line"
    THEN [start |-> comment.span.start + 2, end |-> comment.span.end]
    ELSE [start |-> comment.span.start + 2, end |-> comment.span.end - 2]

\* Span::source_text: the bytes of text from offset start up to offset end.
SpanSourceText(span, text) == SubSeq(text, span.start + 1, span.end)

\* Mutant: the value is cut at the full span.
CommentOf_FullSpan(comment, text) ==
    [type |-> IF comment.kind = "CommentKind::Line"
              THEN "CommentType::Line" ELSE "CommentType::Block",
     value |-> SpanSourceText(comment.span, text),
     start |-> comment.span.start,
     end |-> comment.span.end]

\* Mutant: both kinds are mapped to Line.
CommentOf_AlwaysLine(comment, text) ==
    [type |-> "CommentType::Line",
     value |-> SpanSourceText(ContentSpan(comment), text),
     start |-> comment.span.start,
     end |-> comment.span.end]

\* The Comment struct built for one engine comment (lib.rs:107-115).
CommentOf(comment, text) ==
    [type |-> IF comment.kind = "CommentKind::Line"
              THEN "CommentType::Line" ELSE "CommentType::Block",
     value |-> SpanSourceText(ContentSpan(comment), text),
     start |-> comment.span.start,
     end |-> comment.span.end]

\* Serialize for Comment: the unit variants of CommentType become their names.
SerializeComment(c) ==
    [type |-> IF c.type = "CommentType::Line" THEN "Line" ELSE "Block",
     value |-> c.value, start |-> c.start, end |-> c.end]

\* Serialize for Diagnostic.
SerializeDiagnostic(d) ==
    [start |-> d.start, end |-> d.end, severity |-> d.severity, message |-> d.message]

\* Serialize for Program.
SerializeProgram(p) == [type |-> "Program", body |-> p.body]

\* lib.rs:100-120: the comments of the program, mapped in order.
CommentsOf(r, text) ==
    IF r.program.comments = <<>> THEN <<>>
    ELSE [i \in 1..Len(r.program.comments) |->
            SerializeComment(CommentOf(r.program.comments[i], text))]

\* Display for the engine's error: its message.
Display(error) == error.message

\* Mutant: the end of a diagnostic is the length of its label.
DiagnosticOf_EndIsLen(error, label) ==
    [start |-> label.offset, end |-> label.len,
     severity |-> "Error", message |-> Display(error)]

\* The Diagnostic struct built for one label of an error (lib.rs:132-137).
DiagnosticOf(error, label) ==
    [start |-> label.offset, end |-> label.offset + label.len,
     severity |-> "Error", message |-> Display(error)]

\* Mutant: each error gives one diagnostic, at its first label if it has one.
DiagnosticsOf_OnePerError(error) ==
    IF error.labels = None \/ error.labels[1] = <<>>
    THEN <<SerializeDiagnostic([start |-> 0, end |-> 0,
                                severity |-> "Error", message |-> Display(error)])>>
    ELSE <<SerializeDiagnostic(DiagnosticOf(error, error.labels[1][1]))>>

\* The closure given to flat_map (lib.rs:127-142): nothing for an error
\* without labels, else one diagnostic for each label.
DiagnosticsOf(error) ==
    IF error.labels = None THEN <<>>
    ELSE LET labels == error.labels[1]
         IN [i \in 1..Len(labels) |-> SerializeDiagnostic(DiagnosticOf(error, labels[i]))]

\* flat_map(...).collect(): the lists of the errors, concatenated in order.
RECURSIVE FlatMapDiagnostics(_)
FlatMapDiagnostics(es) ==
    IF es = <<>> THEN <<>>
    ELSE DiagnosticsOf(Head(es)) \o FlatMapDiagnostics(Tail(es))

\* lib.rs:122-144
ErrorsOf(r) == IF r.errors = <<>> THEN <<>> ELSE FlatMapDiagnostics(r.errors)

\* `?` on the serialization of the program: the error is returned.
OnProgramFailure == [status |-> "err", error |-> "serde_wasm_bindgen::Error"]

\* Mutant: the serialization of an item is propagated with `?` as well.
OnItemFailure_Propagated == [status |-> "err", error |-> "serde_wasm_bindgen::Error"]

\* .unwrap() on the serialization of a comment or a diagnostic.
OnItemFailure == [status |-> "panic"]


ParserOptionsSet ==
    [source_type : {None, Some("script"), Some("module"), Some("commonjs")},
     source_filename : {None, Some("a.mjs"), Some("a.tsx"), Some("a.txt")}]

MinifyIdle ==
    /\ o = None
    /\ mpc = "idle"
    /\ minifier_options = None
    /\ codegen_options = "unset"

ParseInit ==
    /\ source_text \in SourceTexts
    /\ options \in ParserOptionsSet
    /\ pc = "start"
    /\ source_type = None
    /\ ret = None
    /\ program = None
    /\ comments = <<>>
    /\ errors = <<>>
    /\ fault = "none"
    /\ result = [status |-> "running"]
    /\ MinifyIdle

\* lib.rs:82-92 with a file name that has a known extension, or none.
InferSourceType ==
    /\ pc = "start"
    /\ result.status = "running"
    /\ ResolveSourceType(options).ok
    /\ source_type' = Some(ResolveSourceType(options).value)
    /\ pc' = "parse"
    /\ UNCHANGED <<source_text, options, ret, program, comments, errors, fault, result>>
    /\ UNCHANGED minify_vars

\* lib.rs:85: from_path(name).unwrap() on an unknown extension.
InferSourceTypePanics ==
    /\ pc = "start"
    /\ result.status = "running"
    /\ ~ResolveSourceType(options).ok
    /\ result' = [status |-> "panic"]
    /\ UNCHANGED <<source_text, options, pc, source_type, ret, program, comments, errors, fault>>
    /\ UNCHANGED minify_vars

\* lib.rs:94
Parse ==
    /\ pc = "parse"
    /\ \E r \in ParserReturns(source_text) : ret' = Some(r)
    /\ pc' = "program"
    /\ UNCHANGED <<source_text, options, source_type, program, comments, errors, fault, result>>
    /\ UNCHANGED minify_vars

\* lib.rs:98, the serializer accepts the tree.
SerializeTree ==
    /\ pc = "program"
    /\ result.status = "running"
    /\ program' = Some(SerializeProgram(ret[1].program))
    /\ pc' = "comments"
    /\ UNCHANGED <<source_text, options, source_type, ret, comments, errors, fault, result>>
    /\ UNCHANGED minify_vars

\* lib.rs:98, the serializer refuses the tree.
SerializeTreeFails ==
    /\ pc = "program"
    /\ result.status = "running"
    /\ fault' = "tree"
    /\ result' = OnProgramFailure
    /\ UNCHANGED <<source_text, options, pc, source_type, ret, program, comments, errors>>
    /\ UNCHANGED minify_vars

\* lib.rs:100-120, the serializer accepts every comment.
PackComments ==
    /\ pc = "comments"
    /\ result.status = "running"
    /\ comments' = CommentsOf(ret[1], source_text)
    /\ pc' = "errors"
    /\ UNCHANGED <<source_text, options, source_type, ret, program, errors, fault, result>>
    /\ UNCHANGED minify_vars

\* lib.rs:116-117, the serializer refuses a comment.
PackCommentsFails ==
    /\ pc = "comments"
    /\ result.status = "running"
    /\ ret[1].program.comments # <<>>
    /\ fault' = "comment"
    /\ result' = OnItemFailure
    /\ UNCHANGED <<source_text, options, pc, source_type, ret, program, comments, errors>>
    /\ UNCHANGED minify_vars

\* lib.rs:122-146, the serializer accepts every diagnostic; the call returns
\* Ok(ParseResult { program, comments, errors }).
PackErrors ==
    /\ pc = "errors"
    /\ result.status = "running"
    /\ errors' = ErrorsOf(ret[1])
    /\ pc' = "done"
    /\ result' = [status |-> "ok",
                  value |-> [program |-> program[1], comments |-> comments,
                             errors |-> ErrorsOf(ret[1])]]
    /\ UNCHANGED <<source_text, options, source_type, ret, program, comments, fault>>
    /\ UNCHANGED minify_vars

\* lib.rs:138-139, the serializer refuses a diagnostic.
PackErrorsFails ==
    /\ pc = "errors"
    /\ result.status = "running"
    /\ \E i \in 1..Len(ret[1].errors) : DiagnosticsOf(ret[1].errors[i]) # <<>>
    /\ fault' = "diagnostic"
    /\ result' = OnItemFailure
    /\ UNCHANGED <<source_text, options, pc, source_type, ret, program, comments, errors>>
    /\ UNCHANGED minify_vars

ParseNext ==
    \/ InferSourceType
    \/ InferSourceTypePanics
    \/ Parse
    \/ SerializeTree
    \/ SerializeTreeFails
    \/ PackComments
    \/ PackCommentsFails
    \/ PackErrors
    \/ PackErrorsFails

ParseSpec == ParseInit /\ [][ParseNext]_vars

----------------------------------------------------------------------------
(* Claims about the options pipeline, checked under Spec.                  *)

AbsentOrTrue == {None, Some(EitherA(TRUE))}
Twin(x) == IF x = None THEN Some(EitherA(TRUE)) ELSE None
Disabled == Some(EitherA(FALSE))
IsDetail(x) == x # None /\ x[1].either = "B"

\* The compress option is a detailed record whose target is present and is
\* not a recognised version tag.
InvalidTarget(mo) ==
    /\ IsDetail(mo.compress)
    /\ mo.compress[1].b.target # None
    /\ mo.compress[1].b.target[1] \notin RecognisedTargets

\* C1: for compress and for mangle, and whatever the other fields are, the
\* assembled result for an absent option is the result for the option set
\* to true: the stage is enabled with the full default record (for mangle,
\* unless the assembly was aborted by the compress target, where both
\* inputs give the same error).
C1_AbsentSameAsTrue ==
    mpc # "start" =>
        LET r == minifier_options[1]
        IN /\ o.compress \in AbsentOrTrue =>
                /\ r = MinifierOptionsTryFrom([o EXCEPT !.compress = Twin(@)])
                /\ r.ok
                /\ r.value.compress = Some(OxcCompressOptionsDefault)
           /\ o.mangle \in AbsentOrTrue =>
                /\ r = MinifierOptionsTryFrom([o EXCEPT !.mangle = Twin(@)])
                /\ r.ok => r.value.mangle = Some(OxcMangleOptionsDefault)
                /\ ~r.ok => InvalidTarget(o)

C1_Witness ==
    /\ mpc = "assembled"
    /\ o.compress = None
    /\ o.mangle = Some(EitherA(TRUE))
    /\ minifier_options[1].ok
    /\ minifier_options[1].value.compress = Some(OxcCompressOptionsDefault)
    /\ minifier_options[1].value.mangle = Some(OxcMangleOptionsDefault)

\* C2: a detailed record resolves field by field: a present field is taken
\* over (the target as the variant its tag names), an omitted one takes
\* its own default (target ESNext, drop_console false, drop_debugger true,
\* toplevel false, debug false, remove_whitespace true); a record with
\* every field omitted resolves as the absent option does.
C2_FieldLevelMerge ==
    /\ (mpc # "start" /\ minifier_options[1].ok) =>
        LET v == minifier_options[1].value
        IN /\ IsDetail(o.compress) =>
                LET c == o.compress[1].b
                IN /\ v.compress # None
                   /\ v.compress[1].target =
                        IF c.target = None THEN "ESNext" ELSE ESTargetOf[c.target[1]]
                   /\ v.compress[1].drop_console =
                        IF c.drop_console = None THEN FALSE ELSE c.drop_console[1]
                   /\ v.compress[1].drop_debugger =
                        IF c.drop_debugger = None THEN TRUE ELSE c.drop_debugger[1]
                   /\ (c.target = None /\ c.drop_console = None /\ c.drop_debugger = None)
                        => v = MinifierOptionsTryFrom([o EXCEPT !.compress = None]).value
           /\ IsDetail(o.mangle) =>
                LET m == o.mangle[1].b
                IN /\ v.mangle # None
                   /\ v.mangle[1].top_level =
                        IF m.toplevel = None THEN FALSE ELSE m.toplevel[1]
                   /\ v.mangle[1].debug = IF m.debug = None THEN FALSE ELSE m.debug[1]
                   /\ (m.toplevel = None /\ m.debug = None)
                        => v = MinifierOptionsTryFrom([o EXCEPT !.mangle = None]).value
    /\ (mpc = "resolved" /\ IsDetail(o.codegen)) =>
        LET g == o.codegen[1].b
        IN /\ codegen_options # None
           /\ codegen_options[1].minify =
                IF g.remove_whitespace = None THEN TRUE ELSE g.remove_whitespace[1]
           /\ g.remove_whitespace = None => codegen_options = ResolveCodegen(None)

C2_Witness ==
    /\ mpc = "resolved"
    /\ o.compress = Some(EitherB([target |-> Some("es2015"),
                                  drop_console |-> Some(TRUE), drop_debugger |-> None]))
    /\ minifier_options[1].value.compress =
            Some([target |-> "ES2015", drop_console |-> TRUE, drop_debugger |-> TRUE])
    /\ o.mangle = Some(EitherB([toplevel |-> Some(TRUE), debug |-> None]))
    /\ minifier_options[1].value.mangle = Some([top_level |-> TRUE, debug |-> FALSE])
    /\ o.codegen = Some(EitherB([remove_whitespace |-> None]))
    /\ codegen_options = Some([minify |-> TRUE])

\* C3: an option set to false never gives an enabled stage, whatever the
\* other options and sourcemap are.  compress: false always assembles, with
\* the compress stage skipped.  mangle: false gives a skipped mangle stage
\* in every assembled result; the only inputs without one are those whose
\* compress target aborts the whole assembly.  {compress: false} with
\* mangle absent leaves mangle at its defaults.
C3_FalseDisables ==
    mpc # "start" =>
        LET r == minifier_options[1]
        IN /\ o.compress = Disabled => (r.ok /\ r.value.compress = None)
           /\ o.mangle = Disabled =>
                IF r.ok THEN r.value.mangle = None ELSE InvalidTarget(o)
           /\ (o.compress = Disabled /\ o.mangle = None) =>
                r.value.mangle = Some(OxcMangleOptionsDefault)

C3_Witness ==
    /\ mpc = "assembled"
    /\ o.compress = Disabled
    /\ o.mangle = None
    /\ o.sourcemap = Some(TRUE)
    /\ minifier_options[1] =
            Ok([compress |-> None, mangle |-> Some(OxcMangleOptionsDefault)])

\* C4: the assembly fails exactly when the compress record carries a target
\* that is not a recognised tag, whatever mangle, codegen and sourcemap
\* are; the failure is the parse error alone, with no options beside it,
\* and the codegen options are not resolved after it.
C4_InvalidTargetAborts ==
    mpc # "start" =>
        LET r == minifier_options[1]
        IN /\ ~r.ok <=> InvalidTarget(o)
           /\ ~r.ok =>
                /\ r = Err(<<"Invalid target", o.compress[1].b.target[1]>>)
                /\ codegen_options = "unset"
                /\ mpc = "assembled"

C4_Witness ==
    /\ mpc = "assembled"
    /\ IsDetail(o.compress)
    /\ o.compress[1].b.target = Some("es2049")
    /\ o.mangle = Disabled
    /\ o.codegen = Some(EitherB([remove_whitespace |-> Some(FALSE)]))
    /\ ~minifier_options[1].ok

----------------------------------------------------------------------------
(* Claims about parse_sync, checked under ParseSpec.                       *)

Returned == result.status = "ok"
Outside(text, start, end) == SubSeq(text, start + 1, end)
Contains(t, sub) ==
    \E i \in 1..(Len(t) - Len(sub) + 1) : SubSeq(t, i, i + Len(sub) - 1) = sub
Opening(type) == IF type = "Line" THEN <<"/", "/">> ELSE <<"/", "*">>
Closing(type) == IF type = "Line" THEN <<>> ELSE <<"*", "/">>

\* What the text of the source says about returned comment c: its bounds
\* lie in the text and the text between them is the opening delimiter,
\* the value, and the closing delimiter of its kind.
DelimitersAroundValue(c) ==
    /\ 0 <= c.start /\ c.start <= c.end /\ c.end <= Len(source_text)
    /\ Outside(source_text, c.start, c.end) = Opening(c.type) \o c.value \o Closing(c.type)

\* C5 as stated: the value is the text between the delimiters and holds no
\* delimiter of its kind.
C5_Original ==
    Returned =>
        \A i \in 1..Len(result.value.comments) :
            LET c == result.value.comments[i]
            IN /\ DelimitersAroundValue(c)
               /\ ~Contains(c.value, Opening(c.type))
               /\ c.type = "Block" => ~Contains(c.value, Closing(c.type))

\* C5: for every returned comment, start and end bound its full span and
\* the source between them reads opening delimiter, value, closing
\* delimiter: the value is the text of the content span.  (The value itself
\* may repeat delimiter characters.)
C5_ValueBetweenDelimiters ==
    Returned =>
        \A i \in 1..Len(result.value.comments) :
            /\ DelimitersAroundValue(result.value.comments[i])
            /\ result.value.comments[i].start = ret[1].program.comments[i].span.start
            /\ result.value.comments[i].end = ret[1].program.comments[i].span.end

C5_Witness ==
    /\ Returned
    /\ source_text = <<"/", "*", "a", "*", "/">>
    /\ result.value.comments =
            <<[type |-> "Block", value |-> <<"a">>, start |-> 0, end |-> 5]>>

NumLabels(error) == IF error.labels = None THEN 0 ELSE Len(error.labels[1])

\* Number of labels on the first k errors of es.
RECURSIVE LabelsBefore(_, _)
LabelsBefore(es, k) ==
    IF k = 0 THEN 0 ELSE LabelsBefore(es, k - 1) + NumLabels(es[k])

C7_Original ==
    Returned =>
        /\ ret[1].errors # <<>> => result.value.errors # <<>>
        /\ \A i \in 1..Len(result.value.errors) :
            LET d == result.value.errors[i]
            IN 0 <= d.start /\ d.start <= d.end /\ d.end <= Len(source_text)

\* C7: the returned errors collection is non-empty exactly when some engine
\* error carries a label, and every returned diagnostic has
\* 0 <= start <= end <= length of the source text.
C7_NonEmptyIffLabelled ==
    Returned =>
        /\ result.value.errors # <<>> <=>
                \E e \in 1..Len(ret[1].errors) : NumLabels(ret[1].errors[e]) > 0
        /\ \A i \in 1..Len(result.value.errors) :
            LET d == result.value.errors[i]
            IN 0 <= d.start /\ d.start <= d.end /\ d.end <= Len(source_text)

C7_Witness ==
    /\ Returned
    /\ source_text = <<"a", "a">>
    /\ ret[1].errors = <<[message |-> "Unexpected token",
                          labels |-> Some(<<[offset |-> 1, len |-> 1]>>)]>>
    /\ result.value.errors = <<[start |-> 1, end |-> 2, severity |-> "Error",
                                message |-> "Unexpected token"]>>

FileNames == {op.source_filename : op \in ParserOptionsSet}
Started == pc # "start" \/ result.status # "running"

\* C8 as stated: with sourceType present, every other sourceFilename gives
\* the same source type to the parser and the same outcome.
C8_Original ==
    (Started /\ options.source_type # None) =>
        \A f \in FileNames :
            LET other == ResolveSourceType([options EXCEPT !.source_filename = f])
            IN IF pc = "start" THEN ~other.ok ELSE other = Ok(source_type[1])

\* C8: a present sourceType sets the script/module kind of the source type
\* and nothing else: language and variant are those inferred from
\* sourceFilename (the default without one), with or without sourceType;
\* and the call panics exactly when the file name has an unknown
\* extension, with or without sourceType.
C8_SourceTypeSetsKindOnly ==
    Started =>
        LET inferred == IF options.source_filename = None THEN Ok(SourceTypeDefault)
                        ELSE SourceTypeFromPath(options.source_filename[1])
        IN IF ~inferred.ok THEN pc = "start" /\ result.status = "panic"
           ELSE /\ pc # "start"
                /\ source_type[1].language = inferred.value.language
                /\ source_type[1].variant = inferred.value.variant
                /\ source_type[1].module_kind =
                        IF options.source_type = Some("script") THEN "Script"
                        ELSE IF options.source_type = Some("module") THEN "Module"
                        ELSE inferred.value.module_kind

C8_Witness ==
    /\ pc = "parse"
    /\ options = [source_type |-> Some("script"), source_filename |-> Some("a.tsx")]
    /\ source_type =
            Some([language |-> "TypeScript", module_kind |-> "Script", variant |-> "Jsx"])

\* C9 as stated: whichever serialization fails, the call returns an error.
C9_Original == fault # "none" => result.status = "err"

\* C9: a failure to serialize the tree is returned as the call's error,
\* with no result beside it; a failure to serialize a comment or a
\* diagnostic panics; without a serialization failure the call fails only
\* by the panic on the file extension, and once every step is done it has
\* returned a result, whatever the engine's errors are.
C9_TreeErrItemsPanic ==
    /\ fault = "tree" =>
            result = [status |-> "err", error |-> "serde_wasm_bindgen::Error"]
    /\ fault \in {"comment", "diagnostic"} => result.status = "panic"
    /\ (fault = "none" /\ result.status \notin {"running", "ok"}) =>
            (result.status = "panic" /\ pc = "start")
    /\ pc = "done" => Returned

C9_Witness ==
    /\ fault = "diagnostic"
    /\ result.status = "panic"
    /\ pc = "errors"
    /\ comments # <<>>

\* C10: the returned comments are one for each engine comment, in the
\* engine's order, Line for Line and Block for Block; empty engine lists
\* give empty collections, and all three collections are in the result.
C10_CommentsInOrder ==
    Returned =>
        LET ec == ret[1].program.comments
            out == result.value.comments
        IN /\ DOMAIN result.value = {"program", "comments", "errors"}
           /\ Len(out) = Len(ec)
           /\ \A i \in 1..Len(ec) :
                /\ out[i].type = IF ec[i].kind = "CommentKind::Line" THEN "Line" ELSE "Block"
                /\ out[i].start = ec[i].span.start
                /\ out[i].end = ec[i].span.end
           /\ ec = <<>> => out = <<>>
           /\ ret[1].errors = <<>> => result.value.errors = <<>>

C10_Witness ==
    /\ Returned
    /\ source_text = <<"/", "/", NL, "/", "/">>
    /\ Len(result.value.comments) = 2
    /\ result.value.comments[1].end = 2
    /\ result.value.comments[2].start = 3
    /\ result.value.errors = <<>>

=============================================================================
